---------------------------- MODULE Spec2Model ----------------------------
(***************************************************************************)
(* Booking / payment / credit-ledger core of the skillbuddy backend.       *)
(*                                                                         *)
(* The database tables are the variables.  Every view is a function        *)
(* Handler(w, r) from the world w (the tables and the payment gateway) and *)
(* the request r (its arguments, its position pc and the model instances   *)
(* it holds in memory) to the world and request after ONE database or      *)
(* gateway statement.  Django runs the views in autocommit mode (the       *)
(* source opens no transaction and takes no lock), so a statement is the   *)
(* unit of atomicity: Spec interleaves the statements of concurrent        *)
(* requests, SpecSeq serves one request at a time, from its first          *)
(* statement to its response.                                              *)
(***************************************************************************)
EXTENDS Integers, Sequences, FiniteSets, TLC

VARIABLES
    services,      \* the Service rows that exist
    bookings,      \* Booking rows, by id
    payments,      \* Payment rows, by id
    installments,  \* Installment rows, by id
    ledger,        \* UserCredits rows, in insertion order
    reviews,       \* Review rows, by id
    profile,       \* the provider's ProviderProfile row
    intents,       \* the gateway's payment intents, by id
    delivered,     \* history: the verified events the webhook has received
    req,           \* per worker, the request it serves
    served         \* the number of requests taken so far

tables == <<bookings, payments, installments, ledger, reviews, profile>>
vars == <<services, bookings, payments, installments, ledger, reviews, profile, intents,
          delivered, req, served>>

(***************************************************************************)
(* Bounds of the model.                                                    *)
(***************************************************************************)
MaxBookings == 1        \* bookings that are created
MaxRequests == 3        \* requests served in a behaviour of Spec
MaxRequestsSeq == 4     \* requests served in a behaviour of SpecSeq
MaxInFlight == 2        \* requests served at the same time in Spec
MaxInstallmentCount == 2 \* largest installment_count a request sends
MaxRequestsPay == 5     \* requests served in a behaviour of SpecPay
Price == 10000          \* Service.price of the one service, in cents
CreditsRequired == 2    \* Service.credits_required of the one service
MaxPurchase == 2        \* largest amount of a purchase_credits request
MaxReviewedBookings == 2 \* bookings that are created in SpecReview and SpecReviewSeq
MaxRequestsReview == 5  \* requests served in a behaviour of SpecReview or SpecReviewSeq
MaxCreditBookings == 2  \* bookings that are created in SpecCredits
MaxRequestsCredits == 5 \* requests served in a behaviour of SpecCredits

(***************************************************************************)
(* Program constants.                                                      *)
(***************************************************************************)
DefaultInstallmentCount == 3
MinInstallmentCount == 2
InstallmentPeriodDays == 30
MinRating == 1
MaxRating == 5

BOOKING_STATUS == {"pending", "confirmed", "ongoing", "completed", "cancelled"}
PAYMENT_METHODS == {"card", "paypal", "credits", "cash"}
PAYMENT_STATUS == {"pending", "processing", "completed", "failed", "refunded"}
PAYMENT_TYPE == {"immediate", "later", "installment", "credits"}

Customer == "customer"
Provider == "provider"
Users == {Customer, Provider}

(***************************************************************************)
(* Rows.  A booking's customer, provider and service are those of the one  *)
(* service of the model; sched stands for scheduled_date/scheduled_time.   *)
(***************************************************************************)
NoBooking == [status |-> "none", is_paid |-> FALSE, payment_method |-> "none",
              total_amount |-> 0, sched |-> 0]
NoPayment == [booking |-> 0, user |-> "none", amount |-> 0, payment_type |-> "none",
              payment_method |-> "none", status |-> "none", transaction_id |-> 0]
NoProfile == [rating |-> 0, total_earnings |-> 0, jobs_completed |-> 0]
NoReview == [booking |-> 0, rating |-> 0, provider_response |-> FALSE]

\* Payment.transaction_id: blank, "TXN<booking><timestamp>" (never an id of the
\* gateway), or the id k >= 1 of the gateway's k-th payment intent.
BlankTxn == 0
LocalTxn == -1
UnknownIntent == 99

\* The one service of the model, offered by Provider.
TheService == "service"

World == [services |-> services, bookings |-> bookings, payments |-> payments, installments |-> installments,
          ledger |-> ledger, reviews |-> reviews, profile |-> profile, intents |-> intents,
          delivered |-> delivered]

IdleReq == [op |-> "none", user |-> "none", id |-> 0, s |-> "none", m |-> "none",
            n |-> 0, flag |-> FALSE, pc |-> "done", bk |-> NoBooking,
            pay |-> NoPayment, pid |-> 0, bal |-> 0, prof |-> NoProfile,
            rev |-> NoReview, i |-> 0, gs |-> "none", res |-> "none"]

Request(op, user, id, s, m, n, flag) ==
    [IdleReq EXCEPT !.op = op, !.user = user, !.id = id, !.s = s, !.m = m,
                    !.n = n, !.flag = flag, !.pc = "start"]

\* The view goes on to its next statement.
Goto(w, r, pc) == [w |-> w, r |-> [r EXCEPT !.pc = pc]]

\* The view returns its response; the instances it held are dropped.
Done(w, r, res) ==
    [w |-> w, r |-> [IdleReq EXCEPT !.op = r.op, !.user = r.user, !.id = r.id,
                                    !.s = r.s, !.m = r.m, !.n = r.n, !.flag = r.flag,
                                    !.res = res]]

(***************************************************************************)
(* ORM helpers.                                                            *)
(***************************************************************************)
BookingExists(w, b) == b \in 1..Len(w.bookings)

\* Model.save() of a loaded instance: an UPDATE of every column of the row.
SaveBooking(w, b, bk) == [w EXCEPT !.bookings[b] = bk]
SavePayment(w, p, pay) == [w EXCEPT !.payments[p] = pay]

RECURSIVE SumAmounts(_, _, _)
SumAmounts(rows, user, k) ==
    IF k = 0 THEN 0
    ELSE SumAmounts(rows, user, k - 1)
         + (IF rows[k].user = user THEN rows[k].amount ELSE 0)

\* A faulty aggregate, for comparison: the filter on the user is dropped.
BalanceOfAllUsers(w, user) ==
    SumAmounts(w.ledger, Customer, Len(w.ledger)) + SumAmounts(w.ledger, Provider, Len(w.ledger))

\* UserCredits.objects.filter(user=user).aggregate(total=Sum('amount'))['total'] or 0
Balance(w, user) == SumAmounts(w.ledger, user, Len(w.ledger))

\* A faulty create, for comparison: the new balance is also written to the rows
\* the user already has.
CreateCreditAndRebalance(w, user, amount, ttype, b, balance_after) ==
    [w EXCEPT !.ledger =
        Append([k \in 1..Len(@) |->
                   IF @[k].user = user THEN [@[k] EXCEPT !.balance_after = balance_after]
                   ELSE @[k]],
               [user |-> user, amount |-> amount, transaction_type |-> ttype,
                booking |-> b, balance_after |-> balance_after])]

\* UserCredits.objects.create(...)
CreateCredit(w, user, amount, ttype, b, balance_after) ==
    [w EXCEPT !.ledger = Append(@, [user |-> user, amount |-> amount,
                                    transaction_type |-> ttype, booking |-> b,
                                    balance_after |-> balance_after])]

\* A faulty lookup, for comparison: without a match it falls back to the newest payment.
PaymentsByTxnOrNewest(w, txn) ==
    IF \E p \in 1..Len(w.payments) : w.payments[p].transaction_id = txn
    THEN {p \in 1..Len(w.payments) : w.payments[p].transaction_id = txn}
    ELSE {Len(w.payments)} \ {0}

\* Payment.objects.get(transaction_id=txn): the ids of the payments that match.
PaymentsByTxn(w, txn) == {p \in 1..Len(w.payments) : w.payments[p].transaction_id = txn}


(***************************************************************************)
(* Booking views (services/views.py).                                      *)
(***************************************************************************)

\* BookingListCreateView.post -> BookingSerializer.create: status, is_paid and
\* payment_method are writable fields of the serializer; customer, provider and
\* total_amount are set from the request user and the service.
BookingListCreateView(w, r) ==
    IF TheService \notin w.services THEN Done(w, r, "Invalid")
    ELSE
    Done([w EXCEPT !.bookings = Append(@, [status |-> r.s, is_paid |-> r.flag,
                                           payment_method |-> r.m,
                                           total_amount |-> Price, sched |-> 0])],
         r, "ok")

\* The writable field of a partial update: r.m names it, r.s / r.flag hold its value.
PatchBooking(bk, r) ==
    CASE r.m = "status" -> [bk EXCEPT !.status = r.s]
      [] r.m = "is_paid" -> [bk EXCEPT !.is_paid = r.flag]
      [] r.m = "payment_method" -> [bk EXCEPT !.payment_method = r.s]
      [] r.m = "total_amount" -> [bk EXCEPT !.total_amount = r.n]
      [] OTHER -> bk

\* BookingDetailView.patch: get_object, then serializer.update and instance.save().
BookingDetailView(w, r) ==
    CASE r.pc = "start" ->
           IF ~BookingExists(w, r.id) THEN Done(w, r, "NotFound")
           ELSE Goto(w, [r EXCEPT !.bk = PatchBooking(w.bookings[r.id], r)], "save_booking")
      [] r.pc = "save_booking" -> Done(SaveBooking(w, r.id, r.bk), r, "ok")

update_booking_status_view(w, r) ==
    CASE r.pc = "start" ->
           IF ~(BookingExists(w, r.id) /\ r.user = Provider) THEN Done(w, r, "NotFound")
           ELSE IF r.s \notin BOOKING_STATUS THEN Done(w, r, "InvalidStatus")
           ELSE Goto(w, [r EXCEPT !.bk = [w.bookings[r.id] EXCEPT !.status = r.s]],
                     "save_booking")
      [] r.pc = "save_booking" ->
           IF r.s = "completed" THEN Goto(SaveBooking(w, r.id, r.bk), r, "load_profile")
           ELSE Done(SaveBooking(w, r.id, r.bk), r, "ok")
      [] r.pc = "load_profile" -> Goto(w, [r EXCEPT !.prof = w.profile], "save_profile")
      [] r.pc = "save_profile" ->
           Done([w EXCEPT !.profile =
                     [r.prof EXCEPT !.jobs_completed = @ + 1,
                                    !.total_earnings = @ + r.bk.total_amount]],
                r, "ok")

\* A faulty check, for comparison: only a completed or cancelled booking is refused.
CannotRescheduleWhenFinal(status) == status \in {"completed", "cancelled"}

\* if booking.status not in ['pending', 'confirmed']
CannotReschedule(status) == status \notin {"pending", "confirmed"}

reschedule_booking_view(w, r) ==
    CASE r.pc = "start" ->
           IF ~(BookingExists(w, r.id) /\ r.user = Customer) THEN Done(w, r, "NotFound")
           ELSE IF CannotReschedule(w.bookings[r.id].status)
                THEN Done(w, r, "InvalidTransition")
           ELSE Goto(w, [r EXCEPT !.bk = [w.bookings[r.id] EXCEPT !.sched = r.n]],
                     "save_booking")
      [] r.pc = "save_booking" -> Done(SaveBooking(w, r.id, r.bk), r, "ok")

\* A faulty check, for comparison: only a completed booking is refused.
CannotCancelCompleted(status) == status = "completed"

\* if booking.status in ['completed', 'cancelled']
CannotCancel(status) == status \in {"completed", "cancelled"}

cancel_booking_view(w, r) ==
    CASE r.pc = "start" ->
           IF ~BookingExists(w, r.id) THEN Done(w, r, "NotFound")
           ELSE IF CannotCancel(w.bookings[r.id].status)
                THEN Done(w, r, "InvalidTransition")
           ELSE Goto(w, [r EXCEPT !.bk = [w.bookings[r.id] EXCEPT !.status = "cancelled"]],
                     "save_booking")
      [] r.pc = "save_booking" ->
           IF r.bk.payment_method = "credits" /\ r.bk.is_paid
           THEN Goto(SaveBooking(w, r.id, r.bk), r, "aggregate")
           ELSE Done(SaveBooking(w, r.id, r.bk), r, "ok")
      [] r.pc = "aggregate" -> Goto(w, [r EXCEPT !.bal = Balance(w, Customer)], "create_credit")
      [] r.pc = "create_credit" ->
           Done(CreateCredit(w, Customer, CreditsRequired, "refund", r.id,
                             r.bal + CreditsRequired),
                r, "ok")

\* Faulty checks, for comparison: only a completed or cancelled booking is refused.
AcceptRefusedWhenFinal(status) == status \in {"completed", "cancelled"}
DeclineRefusedWhenFinal(status) == status \in {"completed", "cancelled"}

\* if booking.status != 'pending', in accept_job_view and in decline_job_view
AcceptRefused(status) == status # "pending"
DeclineRefused(status) == status # "pending"

accept_job_view(w, r) ==
    CASE r.pc = "start" ->
           IF ~(BookingExists(w, r.id) /\ r.user = Provider) THEN Done(w, r, "NotFound")
           ELSE IF AcceptRefused(w.bookings[r.id].status) THEN Done(w, r, "InvalidTransition")
           ELSE Goto(w, [r EXCEPT !.bk = [w.bookings[r.id] EXCEPT !.status = "confirmed"]],
                     "save_booking")
      [] r.pc = "save_booking" -> Done(SaveBooking(w, r.id, r.bk), r, "ok")

decline_job_view(w, r) ==
    CASE r.pc = "start" ->
           IF ~(BookingExists(w, r.id) /\ r.user = Provider) THEN Done(w, r, "NotFound")
           ELSE IF DeclineRefused(w.bookings[r.id].status) THEN Done(w, r, "InvalidTransition")
           ELSE Goto(w, [r EXCEPT !.bk = [w.bookings[r.id] EXCEPT !.status = "cancelled"]],
                     "save_booking")
      [] r.pc = "save_booking" -> Done(SaveBooking(w, r.id, r.bk), r, "ok")

\* service.delete(): the collector deletes, in one transaction, the service and
\* the rows that reference it with on_delete=CASCADE (its bookings, their
\* payments with their installments, and the reviews), and sets to NULL the
\* booking of the UserCredits rows (on_delete=SET_NULL).  Every row of the model
\* belongs to the one service.
DeleteService(w) ==
    [w EXCEPT !.services = @ \ {TheService},
              !.bookings = <<>>, !.payments = <<>>, !.installments = <<>>,
              !.reviews = <<>>,
              !.ledger = [k \in 1..Len(@) |-> [@[k] EXCEPT !.booking = 0]]]

\* ServiceDeleteView.delete: the queryset holds the services of the request user.
ServiceDeleteView(w, r) ==
    IF ~(TheService \in w.services /\ r.user = Provider) THEN Done(w, r, "NotFound")
    ELSE Done(DeleteService(w), r, "ok")

\* ServiceCategoryDetailView.delete: any authenticated user; the category's
\* services are deleted with it (Service.category, on_delete=CASCADE).
ServiceCategoryDetailView(w, r) ==
    IF TheService \notin w.services THEN Done(w, r, "NotFound")
    ELSE Done(DeleteService(w), r, "ok")

(***************************************************************************)
(* Payment and credit views (services/views.py).  Money is in cents.       *)
(***************************************************************************)

\* Payment.objects.create(...)
CreatePayment(w, b, user, amount, ptype, method, status, txn) ==
    [w EXCEPT !.payments = Append(@, [booking |-> b, user |-> user, amount |-> amount,
                                      payment_type |-> ptype, payment_method |-> method,
                                      status |-> status, transaction_id |-> txn])]

\* num / den cents stored in a DecimalField(decimal_places=2): Decimal division,
\* then the quantize to cents of DecimalField.get_db_prep_save (ROUND_HALF_EVEN).
RoundHalfEven(num, den) ==
    LET q == num \div den
        rem == num % den
    IN  IF 2 * rem < den THEN q
        ELSE IF 2 * rem > den THEN q + 1
        ELSE IF q % 2 = 0 THEN q ELSE q + 1

\* installment_amount = booking.total_amount / installment_count, as stored.
InstallmentAmount(total_amount, installment_count) ==
    RoundHalfEven(total_amount, installment_count)

\* data.get('installment_count', 3); 0 stands for a request without the field.
InstallmentCount(r) == IF r.n = 0 THEN DefaultInstallmentCount ELSE r.n

\* A faulty create, for comparison: the loop index is used as it is.
CreateInstallmentFromZero(w, p, i, amount) ==
    [w EXCEPT !.installments = Append(@, [payment |-> p, installment_number |-> i,
                                          amount |-> amount,
                                          due_days |-> InstallmentPeriodDays * i,
                                          status |-> "pending"])]

\* Installment.objects.create(payment=payment, installment_number=i + 1, ...)
CreateInstallment(w, p, i, amount) ==
    [w EXCEPT !.installments = Append(@, [payment |-> p, installment_number |-> i + 1,
                                          amount |-> amount,
                                          due_days |-> InstallmentPeriodDays * (i + 1),
                                          status |-> "pending"])]

\* A faulty check, for comparison: only a negative balance is refused.
InsufficientCreditsBelowZero(user_balance) == user_balance < 0

\* if user_balance < booking.service.credits_required
InsufficientCredits(user_balance) == user_balance < CreditsRequired

\* A faulty check, for comparison: a paid booking is refused once it is confirmed.
AlreadyPaidAndConfirmed(bk) == bk.is_paid /\ bk.status = "confirmed"

\* if booking.is_paid
AlreadyPaid(bk) == bk.is_paid

process_payment_view(w, r) ==
    CASE r.pc = "start" ->
           IF ~(BookingExists(w, r.id) /\ r.user = Customer) THEN Done(w, r, "NotFound")
           ELSE IF AlreadyPaid(w.bookings[r.id]) THEN Done(w, r, "AlreadyPaid")
           ELSE IF r.m = "credits"
                THEN Goto(w, [r EXCEPT !.bk = w.bookings[r.id]], "aggregate")
                ELSE Goto(w, [r EXCEPT !.bk = w.bookings[r.id]], "create_payment")
      [] r.pc = "aggregate" ->
           IF InsufficientCredits(Balance(w, r.user)) THEN Done(w, r, "InsufficientCredits")
           ELSE Goto(w, [r EXCEPT !.bal = Balance(w, r.user)], "create_credit")
      [] r.pc = "create_credit" ->
           Goto(CreateCredit(w, r.user, -CreditsRequired, "used", r.id,
                             r.bal - CreditsRequired),
                r, "create_payment")
      [] r.pc = "create_payment" ->
           IF r.m = "credits"
           THEN Goto(CreatePayment(w, r.id, r.user, r.bk.total_amount, r.s, r.m,
                                   "completed", BlankTxn),
                     [r EXCEPT !.bk.is_paid = TRUE], "save_booking")
           ELSE IF r.s = "installment"
           THEN Goto(CreatePayment(w, r.id, r.user, r.bk.total_amount, r.s, r.m,
                                   "processing", BlankTxn),
                     [r EXCEPT !.pid = Len(w.payments) + 1, !.i = 0], "create_installment")
           ELSE IF r.s = "immediate"
           THEN Goto(CreatePayment(w, r.id, r.user, r.bk.total_amount, r.s, r.m,
                                   "completed", LocalTxn),
                     [r EXCEPT !.bk.is_paid = TRUE], "save_booking")
           ELSE Done(CreatePayment(w, r.id, r.user, r.bk.total_amount, r.s, r.m,
                                   "pending", LocalTxn),
                     r, "ok")
      [] r.pc = "create_installment" ->
           LET w2 == CreateInstallment(w, r.pid, r.i,
                         InstallmentAmount(r.bk.total_amount, InstallmentCount(r)))
           IN  IF r.i + 1 = InstallmentCount(r) THEN Done(w2, r, "ok")
               ELSE Goto(w2, [r EXCEPT !.i = @ + 1], "create_installment")
      [] r.pc = "save_booking" -> Done(SaveBooking(w, r.id, r.bk), r, "ok")

purchase_credits_view(w, r) ==
    CASE r.pc = "start" ->
           IF r.n <= 0 THEN Done(w, r, "InvalidAmount")
           ELSE Goto(w, [r EXCEPT !.bal = Balance(w, r.user)], "create_credit")
      [] r.pc = "create_credit" ->
           Done(CreateCredit(w, r.user, r.n, "purchase", 0, r.bal + r.n), r, "ok")

\* Payment.objects.get(id=payment_id, user=request.user)
PaymentVisible(w, p, user) == p \in 1..Len(w.payments) /\ w.payments[p].user = user

\* A faulty check, for comparison: only a failed payment is refused.
NotRefundableWhenFailed(status) == status = "failed"

\* if payment.status != 'completed'
NotRefundable(status) == status # "completed"

refund_payment_view(w, r) ==
    CASE r.pc = "start" ->
           IF ~PaymentVisible(w, r.id, r.user) THEN Done(w, r, "NotFound")
           ELSE IF w.payments[r.id].status = "refunded" THEN Done(w, r, "AlreadyRefunded")
           ELSE IF NotRefundable(w.payments[r.id].status) THEN Done(w, r, "NotCompleted")
           ELSE Goto(w, [r EXCEPT !.pay = [w.payments[r.id] EXCEPT !.status = "refunded"]],
                     "save_payment")
      [] r.pc = "save_payment" -> Goto(SavePayment(w, r.id, r.pay), r, "load_booking")
      [] r.pc = "load_booking" ->
           Goto(w, [r EXCEPT !.bk = [w.bookings[r.pay.booking] EXCEPT !.status = "cancelled"]],
                "save_booking")
      [] r.pc = "save_booking" -> Done(SaveBooking(w, r.pay.booking, r.bk), r, "ok")

(***************************************************************************)
(* Review views (services/views.py) and ProviderProfile.update_rating.     *)
(* A rating is kept in hundredths.                                         *)
(***************************************************************************)

\* A faulty lookup, for comparison: a booking never has a review.
ReviewsOfNone(w, b) == {}

\* The reviews of booking b (booking.review, Review.objects.filter(booking=b)).
ReviewsOf(w, b) == {k \in 1..Len(w.reviews) : w.reviews[k].booking = b}

\* Review.objects.create(booking=booking, ..., rating=rating, comment=comment)
CreateReview(w, b, rating) ==
    [w EXCEPT !.reviews = Append(@, [booking |-> b, rating |-> rating,
                                     provider_response |-> FALSE])]

RECURSIVE SumRatings(_, _)
SumRatings(rows, k) == IF k = 0 THEN 0 ELSE SumRatings(rows, k - 1) + rows[k].rating

\* round(reviews.aggregate(models.Avg('rating'))['rating__avg'], 2); every review
\* is of the provider's one service.
AverageRating(w) ==
    RoundHalfEven(100 * SumRatings(w.reviews, Len(w.reviews)), Len(w.reviews))

\* not rating or not (1 <= int(rating) <= 5); 0 stands for a request without rating.
InvalidRating(rating) == rating < MinRating \/ rating > MaxRating

\* r.id is the booking_id, r.n the rating.
create_booking_review_view(w, r) ==
    CASE r.pc = "start" ->
           IF ~(BookingExists(w, r.id) /\ r.user = Customer) THEN Done(w, r, "NotFound")
           ELSE IF w.bookings[r.id].status # "completed"
                THEN Done(w, r, "BookingNotCompleted")
           ELSE Goto(w, r, "check_review")
      [] r.pc = "check_review" ->
           IF ReviewsOf(w, r.id) # {} THEN Done(w, r, "DuplicateReview")
           ELSE IF InvalidRating(r.n) THEN Done(w, r, "InvalidRating")
           ELSE Goto(w, r, "create_review")
      [] r.pc = "create_review" ->
           \* the unique constraint of the OneToOneField: IntegrityError, a 500
           IF ReviewsOf(w, r.id) # {} THEN Done(w, r, "Error")
           ELSE Goto(CreateReview(w, r.id, r.n), r, "load_profile")
      [] r.pc = "load_profile" -> Goto(w, [r EXCEPT !.prof = w.profile], "aggregate")
      [] r.pc = "aggregate" ->
           Goto(w, [r EXCEPT !.prof.rating = AverageRating(w)], "save_profile")
      [] r.pc = "save_profile" -> Done([w EXCEPT !.profile = r.prof], r, "ok")

\* ReviewListCreateView.post -> ReviewSerializer: booking is any booking's id,
\* validated by the serializer's unique validator; rating by the field's validators.
ReviewListCreateView(w, r) ==
    CASE r.pc = "start" ->
           IF BookingExists(w, r.id) /\ ReviewsOf(w, r.id) # {}
           THEN Done(w, r, "DuplicateReview")
           ELSE IF ~BookingExists(w, r.id) \/ InvalidRating(r.n) THEN Done(w, r, "Invalid")
           ELSE Goto(w, r, "create_review")
      [] r.pc = "create_review" ->
           IF ReviewsOf(w, r.id) # {} THEN Done(w, r, "Error")
           ELSE Done(CreateReview(w, r.id, r.n), r, "ok")

\* r.id is the review_id, r.flag whether the request carries provider_response.
respond_to_review_view(w, r) ==
    CASE r.pc = "start" ->
           IF ~(r.id \in 1..Len(w.reviews) /\ r.user = Provider) THEN Done(w, r, "NotFound")
           ELSE IF ~r.flag THEN Done(w, r, "Invalid")
           ELSE Goto(w, [r EXCEPT !.rev = [w.reviews[r.id] EXCEPT !.provider_response = TRUE]],
                     "save_review")
      [] r.pc = "save_review" -> Done([w EXCEPT !.reviews[r.id] = r.rev], r, "ok")

(***************************************************************************)
(* The payment gateway: its payment intents, and the events it has sent.   *)
(* An intent is requires_payment_method, processing, succeeded or          *)
(* canceled; failed records that an attempt on it failed (the gateway then *)
(* sent payment_intent.payment_failed and the intent may still succeed),   *)
(* refunded that its charge was refunded (charge.refunded was sent).       *)
(***************************************************************************)
IntentExists(w, k) == k \in 1..Len(w.intents)

\* The gateway has sent an event of this type for intent k; it delivers an event
\* at least once, in no particular order.
Emitted(w, etype, k) ==
    /\ IntentExists(w, k)
    /\ CASE etype = "payment_intent.succeeded" -> w.intents[k].status = "succeeded"
         [] etype = "payment_intent.payment_failed" -> w.intents[k].failed
         [] etype = "payment_intent.canceled" -> w.intents[k].status = "canceled"
         [] etype = "charge.refunded" -> w.intents[k].refunded
         [] OTHER -> FALSE

(***************************************************************************)
(* Gateway views (services/stripe_views.py).                               *)
(***************************************************************************)

\* r.s is what the gateway answers: "ok", "customer_fails" or "intent_fails".
create_payment_intent(w, r) ==
    CASE r.pc = "start" ->
           IF ~(BookingExists(w, r.id) /\ r.user = Customer) THEN Done(w, r, "NotFound")
           ELSE IF w.bookings[r.id].is_paid THEN Done(w, r, "AlreadyPaid")
           ELSE IF r.s = "customer_fails" THEN Done(w, r, "GatewayError")
           ELSE Goto(w, [r EXCEPT !.bk = w.bookings[r.id]], "create_intent")
      [] r.pc = "create_intent" ->
           IF r.s = "intent_fails" THEN Done(w, r, "GatewayError")
           ELSE Goto([w EXCEPT !.intents = Append(@, [status |-> "requires_payment_method",
                                                      failed |-> FALSE,
                                                      refunded |-> FALSE])],
                     [r EXCEPT !.pid = Len(w.intents) + 1], "create_payment")
      [] r.pc = "create_payment" ->
           Done(CreatePayment(w, r.id, r.user, r.bk.total_amount, "immediate", "card",
                              "processing", r.pid),
                r, "ok")

\* r.id is the payment_intent_id, r.flag whether the gateway answers the retrieve.
confirm_payment(w, r) ==
    CASE r.pc = "start" ->
           IF ~(r.flag /\ IntentExists(w, r.id)) THEN Done(w, r, "GatewayError")
           ELSE Goto(w, [r EXCEPT !.gs = w.intents[r.id].status], "load_payment")
      [] r.pc = "load_payment" ->
           IF PaymentsByTxn(w, r.id) = {} THEN Done(w, r, "NotFound")
           ELSE IF Cardinality(PaymentsByTxn(w, r.id)) > 1 THEN Done(w, r, "Error")
           ELSE LET p == CHOOSE x \in PaymentsByTxn(w, r.id) : TRUE
                IN  IF r.gs = "succeeded"
                    THEN Goto(w, [r EXCEPT !.pid = p,
                                           !.pay = [w.payments[p] EXCEPT !.status = "completed"]],
                              "load_booking")
                    ELSE IF r.gs = "processing"
                    THEN Goto(w, [r EXCEPT !.pid = p,
                                           !.pay = [w.payments[p] EXCEPT !.status = "processing"]],
                              "save_payment")
                    ELSE Goto(w, [r EXCEPT !.pid = p,
                                           !.pay = [w.payments[p] EXCEPT !.status = "failed"]],
                              "save_payment")
      [] r.pc = "load_booking" ->
           Goto(w, [r EXCEPT !.bk = [w.bookings[r.pay.booking] EXCEPT !.is_paid = TRUE]],
                "save_booking")
      [] r.pc = "save_booking" -> Goto(SaveBooking(w, r.pay.booking, r.bk), r, "save_payment")
      [] r.pc = "save_payment" -> Done(SavePayment(w, r.pid, r.pay), r, "ok")

\* The gateway refunds the charge of a succeeded intent that is not refunded yet.
GatewayRefunds(w, txn) ==
    IntentExists(w, txn) /\ w.intents[txn].status = "succeeded" /\ ~w.intents[txn].refunded

\* A faulty view, for comparison: the payment is saved as refunded before the
\* gateway is asked for the refund.
create_refund_before_gateway(w, r) ==
    CASE r.pc = "start" ->
           IF ~PaymentVisible(w, r.id, r.user) THEN Done(w, r, "NotFound")
           ELSE IF w.payments[r.id].status # "completed" THEN Done(w, r, "NotCompleted")
           ELSE Goto(w, [r EXCEPT !.pay = [w.payments[r.id] EXCEPT !.status = "refunded"]],
                     "save_payment")
      [] r.pc = "save_payment" -> Goto(SavePayment(w, r.id, r.pay), r, "gateway_refund")
      [] r.pc = "gateway_refund" ->
           IF ~(r.flag /\ GatewayRefunds(w, r.pay.transaction_id))
           THEN Done(w, r, "GatewayError")
           ELSE Goto([w EXCEPT !.intents[r.pay.transaction_id].refunded = TRUE], r,
                     "load_booking")
      [] r.pc = "load_booking" ->
           Goto(w, [r EXCEPT !.bk = [w.bookings[r.pay.booking] EXCEPT !.status = "cancelled"]],
                "save_booking")
      [] r.pc = "save_booking" -> Done(SaveBooking(w, r.pay.booking, r.bk), r, "ok")

\* r.id is the payment_id, r.flag whether the gateway is reachable.
create_refund(w, r) ==
    CASE r.pc = "start" ->
           IF ~PaymentVisible(w, r.id, r.user) THEN Done(w, r, "NotFound")
           ELSE IF w.payments[r.id].status # "completed" THEN Done(w, r, "NotCompleted")
           ELSE IF w.payments[r.id].status = "refunded" THEN Done(w, r, "AlreadyRefunded")
           ELSE Goto(w, [r EXCEPT !.pay = w.payments[r.id]], "gateway_refund")
      [] r.pc = "gateway_refund" ->
           IF ~(r.flag /\ GatewayRefunds(w, r.pay.transaction_id))
           THEN Done(w, r, "GatewayError")
           ELSE Goto([w EXCEPT !.intents[r.pay.transaction_id].refunded = TRUE],
                     [r EXCEPT !.pay.status = "refunded"], "save_payment")
      [] r.pc = "save_payment" -> Goto(SavePayment(w, r.id, r.pay), r, "load_booking")
      [] r.pc = "load_booking" ->
           Goto(w, [r EXCEPT !.bk = [w.bookings[r.pay.booking] EXCEPT !.status = "cancelled"]],
                "save_booking")
      [] r.pc = "save_booking" -> Done(SaveBooking(w, r.pay.booking, r.bk), r, "ok")

\* First statement of _handle_payment_intent_succeeded: the payment is found and
\* set to completed in memory.
_handle_payment_intent_succeeded(w, r) ==
    IF PaymentsByTxn(w, r.id) = {} THEN Done(w, r, "ok")
    ELSE IF Cardinality(PaymentsByTxn(w, r.id)) > 1 THEN Done(w, r, "Error")
    ELSE LET p == CHOOSE x \in PaymentsByTxn(w, r.id) : TRUE
         IN  Goto(w, [r EXCEPT !.pid = p,
                               !.pay = [w.payments[p] EXCEPT !.status = "completed"]],
                  "save_payment")

\* _handle_payment_intent_failed and _handle_payment_intent_canceled.
_handle_payment_intent_failed(w, r) ==
    IF PaymentsByTxn(w, r.id) = {} THEN Done(w, r, "ok")
    ELSE IF Cardinality(PaymentsByTxn(w, r.id)) > 1 THEN Done(w, r, "Error")
    ELSE LET p == CHOOSE x \in PaymentsByTxn(w, r.id) : TRUE
         IN  Goto(w, [r EXCEPT !.pid = p,
                               !.pay = [w.payments[p] EXCEPT !.status = "failed"]],
                  "save_payment")

\* Payment.objects.filter(transaction_id=charge.get('payment_intent')).first():
\* the newest match (Meta.ordering is -created_at).
_handle_charge_refunded(w, r) ==
    IF PaymentsByTxn(w, r.id) = {} THEN Done(w, r, "ok")
    ELSE LET p == CHOOSE x \in PaymentsByTxn(w, r.id) :
                      \A y \in PaymentsByTxn(w, r.id) : y <= x
         IN  Goto(w, [r EXCEPT !.pid = p,
                               !.pay = [w.payments[p] EXCEPT !.status = "refunded"]],
                  "save_payment")

\* r.s is the event type, r.id the id of its object's payment intent, r.m the
\* Stripe-Signature header: "valid", "invalid" or "missing".
\* A faulty check, for comparison: the header only has to be there.
SignaturePresent(sig_header) == sig_header # "missing"

\* StripeService.construct_webhook_event succeeds: the header carries a signature
\* of the payload under the endpoint's secret.
construct_webhook_event(sig_header) == sig_header = "valid"

stripe_webhook(w, r) ==
    CASE r.pc = "start" ->
           IF ~construct_webhook_event(r.m) THEN Done(w, r, "BadSignature")
           ELSE LET w1 == [w EXCEPT !.delivered = @ \cup {<<r.s, r.id>>}]
                IN  IF r.s = "payment_intent.succeeded"
                    THEN _handle_payment_intent_succeeded(w1, r)
                    ELSE IF r.s \in {"payment_intent.payment_failed",
                                     "payment_intent.canceled"}
                    THEN _handle_payment_intent_failed(w1, r)
                    ELSE IF r.s = "charge.refunded" THEN _handle_charge_refunded(w1, r)
                    ELSE Done(w1, r, "ok")
      [] r.pc = "save_payment" ->
           IF r.s = "payment_intent.succeeded"
           THEN Goto(SavePayment(w, r.pid, r.pay), r, "load_booking")
           ELSE Done(SavePayment(w, r.pid, r.pay), r, "ok")
      [] r.pc = "load_booking" ->
           Goto(w, [r EXCEPT !.bk = [w.bookings[r.pay.booking] EXCEPT !.is_paid = TRUE,
                                                                      !.status = "confirmed"]],
                "save_booking")
      [] r.pc = "save_booking" -> Done(SaveBooking(w, r.pay.booking, r.bk), r, "ok")

(***************************************************************************)
(* The URL dispatcher (services/urls.py): one statement of request r.      *)
(***************************************************************************)
Handler(w, r) ==
    CASE r.op = "BookingListCreateView" -> BookingListCreateView(w, r)
      [] r.op = "BookingDetailView" -> BookingDetailView(w, r)
      [] r.op = "update_booking_status_view" -> update_booking_status_view(w, r)
      [] r.op = "reschedule_booking_view" -> reschedule_booking_view(w, r)
      [] r.op = "cancel_booking_view" -> cancel_booking_view(w, r)
      [] r.op = "accept_job_view" -> accept_job_view(w, r)
      [] r.op = "decline_job_view" -> decline_job_view(w, r)
      [] r.op = "process_payment_view" -> process_payment_view(w, r)
      [] r.op = "purchase_credits_view" -> purchase_credits_view(w, r)
      [] r.op = "refund_payment_view" -> refund_payment_view(w, r)
      [] r.op = "create_payment_intent" -> create_payment_intent(w, r)
      [] r.op = "confirm_payment" -> confirm_payment(w, r)
      [] r.op = "create_refund" -> create_refund(w, r)
      [] r.op = "stripe_webhook" -> stripe_webhook(w, r)
      [] r.op = "create_booking_review_view" -> create_booking_review_view(w, r)
      [] r.op = "ReviewListCreateView" -> ReviewListCreateView(w, r)
      [] r.op = "respond_to_review_view" -> respond_to_review_view(w, r)
      [] r.op = "ServiceDeleteView" -> ServiceDeleteView(w, r)
      [] r.op = "ServiceCategoryDetailView" -> ServiceCategoryDetailView(w, r)

\* A request served alone, from its first statement to its response.
RECURSIVE Run(_, _)
Run(w, r) ==
    LET out == Handler(w, r)
    IN  IF out.r.pc = "done" THEN out ELSE Run(out.w, out.r)

(***************************************************************************)
(* The requests a client may send in world w: every view, with arguments   *)
(* that reach each of its branches (ids of rows that exist and one that    *)
(* does not, both users).                                                  *)
(***************************************************************************)
BookingIds(w) == 1..(Len(w.bookings) + 1)
PaymentIds(w) == 1..(Len(w.payments) + 1)
IntentIds(w) == (1..Len(w.intents)) \cup {UnknownIntent}
MethodInputs == {"card", "credits"}
StatusInputs == BOOKING_STATUS \cup {"bogus"}
EventTypes == {"payment_intent.succeeded", "payment_intent.payment_failed",
               "payment_intent.canceled", "charge.refunded"}
Signatures == {"valid", "invalid", "missing"}

BookingCreateRequests(w) ==
    {Request("BookingListCreateView", Customer, 0, s, m, 0, f) :
        s \in IF Len(w.bookings) < MaxBookings THEN BOOKING_STATUS ELSE {},
        m \in MethodInputs, f \in BOOLEAN}

\* The client that sends only the service, the schedule and the payment method.
PlainBookingRequests(w) ==
    {r \in BookingCreateRequests(w) : r.s = "pending" /\ ~r.flag}

BookingUpdateRequests(w) ==
    {Request("BookingDetailView", Customer, b, s, "status", 0, FALSE) :
        b \in BookingIds(w), s \in BOOKING_STATUS}
    \cup {Request("BookingDetailView", Customer, b, "none", "is_paid", 0, f) :
        b \in BookingIds(w), f \in BOOLEAN}
    \cup {Request("BookingDetailView", Customer, b, m, "payment_method", 0, FALSE) :
        b \in BookingIds(w), m \in MethodInputs}

\* total_amount is a writable DecimalField of the serializer, without a minimum.
AmountInputs == {-Price, 0}

AmountUpdateRequests(w) ==
    {Request("BookingDetailView", u, b, "none", "total_amount", n, FALSE) :
        u \in Users, b \in BookingIds(w), n \in AmountInputs}

\* The customer's bookings and payments for the credits specification: bookings
\* with the default fields and payment_method credits, paid with credits.
CreditBookingRequests(w) ==
    {Request("BookingListCreateView", Customer, 0, "pending", "credits", 0, FALSE) :
        k \in IF Len(w.bookings) < MaxCreditBookings THEN {Len(w.bookings)} ELSE {}}

CreditPaymentRequests(w) ==
    {Request("process_payment_view", Customer, b, "credits", "credits", 0, FALSE) :
        b \in 1..Len(w.bookings)}

CreditPurchaseRequests(w) ==
    {Request("purchase_credits_view", Customer, 0, "none", "none", n, FALSE) :
        n \in 1..MaxPurchase}

CreditCancelRequests(w) ==
    {Request("cancel_booking_view", Customer, b, "none", "none", 0, FALSE) :
        b \in 1..Len(w.bookings)}

StatusRequests(w) ==
    {Request("update_booking_status_view", u, b, s, "none", 0, FALSE) :
        u \in Users, b \in BookingIds(w), s \in StatusInputs}

RescheduleRequests(w) ==
    {Request("reschedule_booking_view", u, b, "none", "none", 1, FALSE) :
        u \in Users, b \in BookingIds(w)}

CancelRequests(w) ==
    {Request("cancel_booking_view", u, b, "none", "none", 0, FALSE) :
        u \in Users, b \in BookingIds(w)}

AcceptRequests(w) ==
    {Request("accept_job_view", u, b, "none", "none", 0, FALSE) :
        u \in Users, b \in BookingIds(w)}

DeclineRequests(w) ==
    {Request("decline_job_view", u, b, "none", "none", 0, FALSE) :
        u \in Users, b \in BookingIds(w)}

\* PaymentProcessSerializer: payment_type and payment_method are choices,
\* installment_count is optional (0 here) and at least 2.
PaymentRequests(w) ==
    {Request("process_payment_view", u, b, s, m, 0, FALSE) :
        u \in Users, b \in BookingIds(w), s \in PAYMENT_TYPE, m \in MethodInputs}
    \cup {Request("process_payment_view", Customer, b, "installment", "card", n, FALSE) :
        b \in BookingIds(w), n \in MinInstallmentCount..MaxInstallmentCount}

PurchaseRequests(w) ==
    {Request("purchase_credits_view", u, 0, "none", "none", n, FALSE) :
        u \in Users, n \in 0..MaxPurchase}

RefundRequests(w) ==
    {Request("refund_payment_view", u, p, "none", "none", 0, FALSE) :
        u \in Users, p \in PaymentIds(w)}

IntentRequests(w) ==
    {Request("create_payment_intent", u, b, s, "none", 0, FALSE) :
        u \in Users, b \in BookingIds(w), s \in {"ok", "customer_fails", "intent_fails"}}

ConfirmRequests(w) ==
    {Request("confirm_payment", Customer, k, "none", "none", 0, f) :
        k \in IntentIds(w), f \in BOOLEAN}

GatewayRefundRequests(w) ==
    {Request("create_refund", u, p, "none", "none", 0, f) :
        u \in Users, p \in PaymentIds(w), f \in BOOLEAN}

\* A request with a valid signature carries an event the gateway has sent, or an
\* event about an object this system holds no payment for.
WebhookRequests(w) ==
    {r \in {Request("stripe_webhook", "none", k, e, sig, 0, FALSE) :
               k \in IntentIds(w), e \in EventTypes, sig \in Signatures} :
        r.m = "valid" => (r.id = UnknownIntent \/ Emitted(w, r.s, r.id))}

\* Bookings for the review specifications: the status is the serializer's
\* writable field, the other fields are left at their defaults.
ReviewBookingRequests(w) ==
    {Request("BookingListCreateView", Customer, 0, s, "card", 0, FALSE) :
        s \in IF Len(w.bookings) < MaxReviewedBookings THEN {"pending", "completed"} ELSE {}}

CompletionRequests(w) ==
    {Request("update_booking_status_view", Provider, b, "completed", "none", 0, FALSE) :
        b \in 1..Len(w.bookings)}

RatingInputs == {0, MinRating, MaxRating}

ReviewRequests(w) ==
    {Request("create_booking_review_view", u, b, "none", "none", n, FALSE) :
        u \in Users, b \in BookingIds(w), n \in RatingInputs}

ReviewPostRequests(w) ==
    {Request("ReviewListCreateView", Customer, b, "none", "none", n, FALSE) :
        b \in BookingIds(w), n \in RatingInputs}

RespondRequests(w) ==
    {Request("respond_to_review_view", u, k, "none", "none", 0, f) :
        u \in Users, k \in 1..(Len(w.reviews) + 1), f \in BOOLEAN}

ServiceDeleteRequests(w) ==
    {Request("ServiceDeleteView", u, 0, "none", "none", 0, FALSE) : u \in Users}

CategoryDeleteRequests(w) ==
    {Request("ServiceCategoryDetailView", u, 0, "none", "none", 0, FALSE) : u \in Users}

(***************************************************************************)
(* Workers.  A worker is idle, serves a request (pc is its next            *)
(* statement), or holds the response it is sending (pc = "done").          *)
(***************************************************************************)
Slots == 1..MaxInFlight

Idle(t) == req[t] = IdleReq
Running(t) == req[t].pc # "done"
Responding(t) == req[t].pc = "done" /\ req[t] # IdleReq

\* A response is sent as soon as it is computed.
Quiet == \A t \in Slots : ~Responding(t)

Commit(t, out) ==
    /\ services' = out.w.services
    /\ bookings' = out.w.bookings
    /\ payments' = out.w.payments
    /\ installments' = out.w.installments
    /\ ledger' = out.w.ledger
    /\ reviews' = out.w.reviews
    /\ profile' = out.w.profile
    /\ intents' = out.w.intents
    /\ delivered' = out.w.delivered
    /\ req' = [req EXCEPT ![t] = out.r]

\* The requests among R that arrive: none once the behaviour has served its share.
Arriving(R) == IF Quiet /\ served < MaxRequests THEN R ELSE {}
ArrivingSeq(R) == IF Quiet /\ served < MaxRequestsSeq THEN R ELSE {}
ArrivingPay(R) == IF Quiet /\ served < MaxRequestsPay THEN R ELSE {}
ArrivingCredits(R) == IF Quiet /\ served < MaxRequestsCredits THEN R ELSE {}
ArrivingReview(R) == IF Quiet /\ served < MaxRequestsReview THEN R ELSE {}

\* A worker takes request r and runs its first statement.
Begin(t, r) ==
    /\ Idle(t)
    /\ served' = served + 1
    /\ \E out \in {Handler(World, r)} : Commit(t, out)

\* A worker runs the next statement of the request it serves.
Step(t) ==
    /\ Quiet /\ Running(t)
    /\ \E out \in {Handler(World, req[t])} : Commit(t, out)
    /\ UNCHANGED served

\* The response is sent and the worker is idle again.
Respond(t) ==
    /\ Responding(t)
    /\ req' = [req EXCEPT ![t] = IdleReq]
    /\ UNCHANGED <<services, bookings, payments, installments, ledger, reviews, profile,
                   intents, delivered, served>>

\* The one worker of SpecSeq serves request r to its response.
Serve(r) ==
    /\ served' = served + 1
    /\ \E out \in {Run(World, r)} : Commit(1, out)

(***************************************************************************)
(* The gateway's own steps.                                                *)
(***************************************************************************)
GatewayAttemptFails ==
    /\ Quiet
    /\ \E k \in 1..Len(intents) :
          /\ intents[k].status = "requires_payment_method"
          /\ ~intents[k].failed
          /\ intents' = [intents EXCEPT ![k].failed = TRUE]
    /\ UNCHANGED <<services, bookings, payments, installments, ledger, reviews, profile,
                   delivered, req, served>>

GatewayProcesses ==
    /\ Quiet
    /\ \E k \in 1..Len(intents) :
          /\ intents[k].status = "requires_payment_method"
          /\ intents' = [intents EXCEPT ![k].status = "processing"]
    /\ UNCHANGED <<services, bookings, payments, installments, ledger, reviews, profile,
                   delivered, req, served>>

GatewaySucceeds ==
    /\ Quiet
    /\ \E k \in 1..Len(intents) :
          /\ intents[k].status \in {"requires_payment_method", "processing"}
          /\ intents' = [intents EXCEPT ![k].status = "succeeded"]
    /\ UNCHANGED <<services, bookings, payments, installments, ledger, reviews, profile,
                   delivered, req, served>>

GatewayCancels ==
    /\ Quiet
    /\ \E k \in 1..Len(intents) :
          /\ intents[k].status = "requires_payment_method"
          /\ intents' = [intents EXCEPT ![k].status = "canceled"]
    /\ UNCHANGED <<services, bookings, payments, installments, ledger, reviews, profile,
                   delivered, req, served>>

Gateway == GatewayAttemptFails \/ GatewayProcesses \/ GatewaySucceeds \/ GatewayCancels

(***************************************************************************)
(* Specifications.                                                         *)
(***************************************************************************)
Init ==
    /\ services = {TheService}
    /\ bookings = <<>>
    /\ payments = <<>>
    /\ installments = <<>>
    /\ ledger = <<>>
    /\ reviews = <<>>
    /\ profile = [rating |-> 0, total_earnings |-> 0, jobs_completed |-> 0]
    /\ intents = <<>>
    /\ delivered = {}
    /\ req = [t \in Slots |-> IdleReq]
    /\ served = 0

\* Requests are served concurrently, statement by statement.
Next ==
    \/ \E t \in Slots :
        \/ \E r \in Arriving(BookingCreateRequests(World)) : Begin(t, r)
        \/ \E r \in Arriving(BookingUpdateRequests(World)) : Begin(t, r)
        \/ \E r \in Arriving(StatusRequests(World)) : Begin(t, r)
        \/ \E r \in Arriving(RescheduleRequests(World)) : Begin(t, r)
        \/ \E r \in Arriving(CancelRequests(World)) : Begin(t, r)
        \/ \E r \in Arriving(AcceptRequests(World)) : Begin(t, r)
        \/ \E r \in Arriving(DeclineRequests(World)) : Begin(t, r)
        \/ \E r \in Arriving(PaymentRequests(World)) : Begin(t, r)
        \/ \E r \in Arriving(PurchaseRequests(World)) : Begin(t, r)
        \/ \E r \in Arriving(RefundRequests(World)) : Begin(t, r)
        \/ \E r \in Arriving(IntentRequests(World)) : Begin(t, r)
        \/ \E r \in Arriving(ConfirmRequests(World)) : Begin(t, r)
        \/ \E r \in Arriving(GatewayRefundRequests(World)) : Begin(t, r)
        \/ \E r \in Arriving(WebhookRequests(World)) : Begin(t, r)
        \/ Step(t)
        \/ Respond(t)
    \/ Gateway

Spec == Init /\ [][Next]_vars

\* Requests are served one after another, each to its response.
NextSeq ==
    \/ \E r \in ArrivingSeq(BookingCreateRequests(World)) : Serve(r)
    \/ \E r \in ArrivingSeq(BookingUpdateRequests(World)) : Serve(r)
    \/ \E r \in ArrivingSeq(StatusRequests(World)) : Serve(r)
    \/ \E r \in ArrivingSeq(RescheduleRequests(World)) : Serve(r)
    \/ \E r \in ArrivingSeq(CancelRequests(World)) : Serve(r)
    \/ \E r \in ArrivingSeq(AcceptRequests(World)) : Serve(r)
    \/ \E r \in ArrivingSeq(DeclineRequests(World)) : Serve(r)
    \/ \E r \in ArrivingSeq(PaymentRequests(World)) : Serve(r)
    \/ \E r \in ArrivingSeq(PurchaseRequests(World)) : Serve(r)
    \/ \E r \in ArrivingSeq(RefundRequests(World)) : Serve(r)
    \/ \E r \in ArrivingSeq(IntentRequests(World)) : Serve(r)
    \/ \E r \in ArrivingSeq(ConfirmRequests(World)) : Serve(r)
    \/ \E r \in ArrivingSeq(GatewayRefundRequests(World)) : Serve(r)
    \/ \E r \in ArrivingSeq(WebhookRequests(World)) : Serve(r)
    \/ \E r \in ArrivingSeq(ServiceDeleteRequests(World)) : Serve(r)
    \/ \E r \in ArrivingSeq(CategoryDeleteRequests(World)) : Serve(r)
    \/ Respond(1)
    \/ Gateway

SpecSeq == Init /\ [][NextSeq]_vars

\* The payment flow alone, served one request after another: a client that
\* books with the default fields, the provider's status updates, the payment and
\* refund views, and the gateway with its webhook.
NextPay ==
    \/ \E r \in ArrivingPay(PlainBookingRequests(World)) : Serve(r)
    \/ \E r \in ArrivingPay(StatusRequests(World)) : Serve(r)
    \/ \E r \in ArrivingPay(PaymentRequests(World)) : Serve(r)
    \/ \E r \in ArrivingPay(RefundRequests(World)) : Serve(r)
    \/ \E r \in ArrivingPay(IntentRequests(World)) : Serve(r)
    \/ \E r \in ArrivingPay(ConfirmRequests(World)) : Serve(r)
    \/ \E r \in ArrivingPay(GatewayRefundRequests(World)) : Serve(r)
    \/ \E r \in ArrivingPay(WebhookRequests(World)) : Serve(r)
    \/ Respond(1)
    \/ Gateway

SpecPay == Init /\ [][NextPay]_vars

\* The review flow, its requests served concurrently, statement by statement.
NextReview ==
    \E t \in Slots :
        \/ \E r \in ArrivingReview(ReviewBookingRequests(World)) : Begin(t, r)
        \/ \E r \in ArrivingReview(CompletionRequests(World)) : Begin(t, r)
        \/ \E r \in ArrivingReview(ReviewRequests(World)) : Begin(t, r)
        \/ \E r \in ArrivingReview(ReviewPostRequests(World)) : Begin(t, r)
        \/ \E r \in ArrivingReview(RespondRequests(World)) : Begin(t, r)
        \/ Step(t)
        \/ Respond(t)

SpecReview == Init /\ [][NextReview]_vars

\* The review flow, served one request after another.
NextReviewSeq ==
    \/ \E r \in ArrivingReview(ReviewBookingRequests(World)) : Serve(r)
    \/ \E r \in ArrivingReview(CompletionRequests(World)) : Serve(r)
    \/ \E r \in ArrivingReview(ReviewRequests(World)) : Serve(r)
    \/ \E r \in ArrivingReview(ReviewPostRequests(World)) : Serve(r)
    \/ \E r \in ArrivingReview(RespondRequests(World)) : Serve(r)
    \/ Respond(1)

SpecReviewSeq == Init /\ [][NextReviewSeq]_vars

\* The customer's credits, the requests served concurrently, statement by
\* statement: purchases, bookings, credits payments and cancellations.
NextCredits ==
    \E t \in Slots :
        \/ \E r \in ArrivingCredits(CreditPurchaseRequests(World)) : Begin(t, r)
        \/ \E r \in ArrivingCredits(CreditBookingRequests(World)) : Begin(t, r)
        \/ \E r \in ArrivingCredits(CreditPaymentRequests(World)) : Begin(t, r)
        \/ \E r \in ArrivingCredits(CreditCancelRequests(World)) : Begin(t, r)
        \/ Step(t)
        \/ Respond(t)

SpecCredits == Init /\ [][NextCredits]_vars

\* The provider's statistics, served one request after another: bookings with the
\* default fields, updates of their total_amount, the provider's status updates
\* and the customer's reviews.
NextStats ==
    \/ \E r \in ArrivingSeq(PlainBookingRequests(World)) : Serve(r)
    \/ \E r \in ArrivingSeq(AmountUpdateRequests(World)) : Serve(r)
    \/ \E r \in ArrivingSeq(StatusRequests(World)) : Serve(r)
    \/ \E r \in ArrivingSeq(ReviewRequests(World)) : Serve(r)
    \/ Respond(1)

SpecStats == Init /\ [][NextStats]_vars

(***************************************************************************)
(* Properties.                                                             *)
(***************************************************************************)
BookingRows == 1..Len(bookings)
PaymentRows == 1..Len(payments)
LedgerRows == 1..Len(ledger)
Terminal == {"completed", "cancelled"}

RECURSIVE TotalAmounts(_, _)
TotalAmounts(rows, k) ==
    IF k = 0 THEN 0 ELSE TotalAmounts(rows, k - 1) + rows[k].total_amount

\* C1: however many completion requests are served, one after another or
\* concurrently, the provider's profile counts a booking once at most:
\* jobs_completed never exceeds the number of bookings, and total_earnings
\* never exceeds the sum of their total_amount.
C1_EarningsOncePerBooking ==
    /\ profile.jobs_completed <= Len(bookings)
    /\ profile.total_earnings <= TotalAmounts(bookings, Len(bookings))

\* C2: a booking that is completed or cancelled keeps its status in every step,
\* whichever view or webhook handler takes the step.
C2_TerminalIsFinal ==
    [][\A b \in BookingRows :
          bookings[b].status \in Terminal => bookings'[b].status = bookings[b].status]_vars

\* C3: when the requests are served one after another, every ledger row's
\* balance_after is the sum of the amounts of its user's rows up to and including
\* it, in insertion order.
C3_BalanceAfterIsPrefixSum ==
    \A k \in LedgerRows : ledger[k].balance_after = SumAmounts(ledger, ledger[k].user, k)

\* The ledger holds a purchase, the debit of a credits payment and the refund of
\* the cancelled booking, in this order.
C3_Witness ==
    /\ Len(ledger) = 3
    /\ ledger[1].transaction_type = "purchase"
    /\ ledger[2].transaction_type = "used"
    /\ ledger[3].transaction_type = "refund"
    /\ \A k \in LedgerRows : ledger[k].user = Customer

\* The balance_after of the user's newest row before row k, 0 when there is none.
RECURSIVE BalanceBefore(_, _, _)
BalanceBefore(rows, user, k) ==
    IF k <= 1 THEN 0
    ELSE IF rows[k - 1].user = user THEN rows[k - 1].balance_after
    ELSE BalanceBefore(rows, user, k - 1)

\* C4: when requests that append to one user's ledger are served concurrently,
\* the appends are serialized: every row starts from the balance its user's
\* previous row left (no two rows start from the same balance), so balance_after
\* is still the running sum.
C4_AppendsSerialized ==
    \A k \in LedgerRows :
        ledger[k].balance_after = BalanceBefore(ledger, ledger[k].user, k) + ledger[k].amount

\* C5: in every state, those between the statements of a request included, a
\* ledger row that debits a booking comes with the booking marked paid and a
\* completed payment of that booking.
C5_CreditsPaymentAtomic ==
    \A k \in LedgerRows :
        ledger[k].transaction_type = "used" =>
            /\ bookings[ledger[k].booking].is_paid
            /\ \E p \in PaymentRows : /\ payments[p].booking = ledger[k].booking
                                      /\ payments[p].status = "completed"

\* C6: a credits payment of the customer's unpaid booking, made with a balance
\* below credits_required, answers InsufficientCredits and changes no table; and
\* the view gives this answer in no other case.
C6_InsufficientCreditsNoEffect ==
    [][LET r == req'[1]
       IN  (req[1] = IdleReq /\ r.op = "process_payment_view") =>
             /\ ( /\ r.m = "credits" /\ r.user = Customer
                  /\ r.id \in BookingRows /\ ~bookings[r.id].is_paid
                  /\ SumAmounts(ledger, r.user, Len(ledger)) < CreditsRequired )
                => (r.res = "InsufficientCredits" /\ UNCHANGED tables)
             /\ r.res = "InsufficientCredits"
                => /\ r.m = "credits"
                   /\ SumAmounts(ledger, r.user, Len(ledger)) < CreditsRequired
                   /\ UNCHANGED tables]_vars

\* The customer holds one credit, one too few, and the payment is refused.
C6_Witness ==
    /\ req[1].op = "process_payment_view"
    /\ req[1].res = "InsufficientCredits"
    /\ SumAmounts(ledger, Customer, Len(ledger)) = 1
    /\ \E b \in BookingRows : ~bookings[b].is_paid

RECURSIVE SumInstallments(_, _, _)
SumInstallments(rows, p, k) ==
    IF k = 0 THEN 0
    ELSE SumInstallments(rows, p, k - 1) + (IF rows[k].payment = p THEN rows[k].amount ELSE 0)

\* C7: the amounts of the installments of a payment sum to the payment's amount,
\* the booking's total_amount, to the cent.
C7_InstallmentsSumToTotal ==
    \A p \in PaymentRows :
        (\E k \in 1..Len(installments) : installments[k].payment = p) =>
            SumInstallments(installments, p, Len(installments)) = payments[p].amount

\* C8: a payment_intent.succeeded event the webhook has received before is a
\* no-op when it comes again: the request answers ok and leaves every payment
\* and every booking as it was.
C8_SucceededReplayIsNoOp ==
    [][LET r == req'[1]
       IN  ( /\ req[1] = IdleReq
             /\ r.op = "stripe_webhook" /\ r.m = "valid"
             /\ r.s = "payment_intent.succeeded"
             /\ <<r.s, r.id>> \in delivered )
           => (r.res = "ok" /\ payments' = payments /\ bookings' = bookings)]_vars

\* C9: a booking that is marked paid has a payment that reached the status
\* completed (and at most went on to refunded).
C9_PaidHasCompletedPayment ==
    \A b \in BookingRows :
        bookings[b].is_paid =>
            \E p \in PaymentRows : /\ payments[p].booking = b
                                   /\ payments[p].status \in {"completed", "refunded"}

\* Position of a payment status in {pending, processing} -> {completed, failed}
\* -> {refunded}.
Rank(status) ==
    CASE status \in {"pending", "processing"} -> 0
      [] status \in {"completed", "failed"} -> 1
      [] OTHER -> 2

\* C10: a payment's status only moves forward: a step that keeps the payment
\* leaves its status where it is,
\* moves it within {pending, processing}, from there to completed or failed,
\* from failed to completed, or from completed to refunded.
C10_PaymentStatusMonotone ==
    [][\A p \in PaymentRows \cap (1..Len(payments')) :
          LET old == payments[p].status
              new == payments'[p].status
          IN  \/ new = old
              \/ Rank(old) = 0 /\ Rank(new) \in {0, 1}
              \/ old = "failed" /\ new = "completed"
              \/ old = "completed" /\ new = "refunded"]_vars

\* The sum of the amounts of the ledger rows of booking b among the first k rows.
RECURSIVE BookingNet(_, _, _)
BookingNet(rows, b, k) ==
    IF k = 0 THEN 0
    ELSE BookingNet(rows, b, k - 1) + (IF rows[k].booking = b THEN rows[k].amount ELSE 0)

\* C11: a cancel of a booking that is paid (it has a completed payment and
\* is_paid is set) and has payment_method credits appends exactly one refund row of credits_required for the customer, and with it the
\* customer's balance is back at its value before the credits payment: the
\* ledger rows of the booking sum to zero.
C11_CancelRestoresBalance ==
    [][LET r == req'[1]
       IN  ( /\ req[1] = IdleReq
             /\ r.op = "cancel_booking_view" /\ r.res = "ok"
             /\ bookings[r.id].payment_method = "credits" /\ bookings[r.id].is_paid
             /\ \E p \in PaymentRows : /\ payments[p].booking = r.id
                                       /\ payments[p].status = "completed" )
           => /\ Len(ledger') = Len(ledger) + 1
              /\ SubSeq(ledger', 1, Len(ledger)) = ledger
              /\ ledger'[Len(ledger')].transaction_type = "refund"
              /\ ledger'[Len(ledger')].user = Customer
              /\ ledger'[Len(ledger')].amount = CreditsRequired
              /\ BookingNet(ledger', r.id, Len(ledger')) = 0]_vars

ReviewRows == 1..Len(reviews)

\* C12: through both review-creating views, a review with a valid rating for the
\* customer's booking is refused with BookingNotCompleted when the booking is not
\* completed and with DuplicateReview when the booking has a review, and the
\* refused request leaves the reviews and the provider's profile as they were.
C12_ReviewOnlyOnceWhenCompleted ==
    [][LET r == req'[1]
       IN  ( /\ req[1] = IdleReq
             /\ r.op \in {"create_booking_review_view", "ReviewListCreateView"}
             /\ r.user = Customer /\ r.id \in BookingRows /\ ~InvalidRating(r.n) )
           => /\ bookings[r.id].status # "completed"
                 => (r.res = "BookingNotCompleted" /\ UNCHANGED <<reviews, profile>>)
              /\ ( /\ bookings[r.id].status = "completed"
                   /\ \E k \in ReviewRows : reviews[k].booking = r.id )
                 => (r.res = "DuplicateReview" /\ UNCHANGED <<reviews, profile>>)]_vars

\* The mean of the ratings of the reviews, rounded to 2 decimals, in hundredths.
MeanRating == RoundHalfEven(100 * SumRatings(reviews, Len(reviews)), Len(reviews))

\* C13: when reviews are submitted one after another for completed bookings,
\* after each of them the provider's stored rating is the mean of the ratings of
\* the reviews, rounded to 2 decimals.
C13_RatingIsMean ==
    ( /\ reviews # <<>>
      /\ \A k \in ReviewRows : bookings[reviews[k].booking].status = "completed" )
    => profile.rating = MeanRating

\* C14: when a submission through create_booking_review_view writes the rating
\* and finishes, and no other request is still being served, the stored rating is
\* the rounded mean of all the reviews, however the statements of the concurrent
\* submissions were interleaved.
C14_NoLostRatingUpdate ==
    [][\A t \in Slots :
          ( /\ req[t].op = "create_booking_review_view"
            /\ req[t].pc = "save_profile" /\ req'[t].pc = "done"
            /\ \A u \in Slots \ {t} : req'[u].pc = "done" )
          => profile'.rating = MeanRating']_vars

\* C15: a booking that BookingListCreateView creates is pending and unpaid,
\* whatever fields the request carries.
C15_CreatedPending ==
    [][\A b \in 1..Len(bookings') :
          b > Len(bookings) => (bookings'[b].status = "pending" /\ ~bookings'[b].is_paid)]_vars

\* C16: a completion request of the provider for a booking that is neither
\* confirmed nor ongoing answers InvalidTransition and leaves the booking's status
\* and the provider's jobs_completed and total_earnings as they were.
C16_CompletionGuard ==
    [][LET r == req'[1]
       IN  ( /\ req[1] = IdleReq
             /\ r.op = "update_booking_status_view" /\ r.s = "completed"
             /\ r.user = Provider /\ r.id \in BookingRows
             /\ bookings[r.id].status \notin {"confirmed", "ongoing"} )
           => /\ r.res = "InvalidTransition"
              /\ bookings'[r.id].status = bookings[r.id].status
              /\ profile'.jobs_completed = profile.jobs_completed
              /\ profile'.total_earnings = profile.total_earnings]_vars

\* C17: the step that moves a booking to completed for update_booking_status_view
\* also adds the booking to the provider's statistics: jobs_completed grows by
\* one and total_earnings by the booking's total_amount in the same step.
C17_CompletionAtomic ==
    [][\A t \in Slots : \A b \in BookingRows :
          ( /\ req'[t].op = "update_booking_status_view" /\ req'[t].s = "completed"
            /\ req'[t].id = b /\ req'[t] # req[t]
            /\ bookings'[b] # bookings[b] /\ bookings'[b].status = "completed" )
          => /\ profile'.jobs_completed = profile.jobs_completed + 1
             /\ profile'.total_earnings = profile.total_earnings + bookings'[b].total_amount]_vars

\* C18: a cancel request for a booking that is completed or cancelled answers
\* InvalidTransition and leaves the bookings and the ledger as they were (no
\* second refund row); for any other booking it succeeds and sets the status to
\* cancelled, changing no other field of the booking.
C18_CancelGuard ==
    [][LET r == req'[1]
       IN  (req[1] = IdleReq /\ r.op = "cancel_booking_view" /\ r.id \in BookingRows)
           => IF bookings[r.id].status \in Terminal
              THEN r.res = "InvalidTransition" /\ UNCHANGED <<bookings, ledger>>
              ELSE /\ r.res = "ok"
                   /\ bookings' = [bookings EXCEPT ![r.id].status = "cancelled"]]_vars

\* A second cancel of a paid credits booking is refused; the ledger holds the one
\* refund row of the first cancel.
C18_Witness ==
    /\ req[1].op = "cancel_booking_view" /\ req[1].res = "InvalidTransition"
    /\ req[1].id \in BookingRows
    /\ bookings[req[1].id].status = "cancelled"
    /\ bookings[req[1].id].payment_method = "credits" /\ bookings[req[1].id].is_paid
    /\ Cardinality({k \in LedgerRows : ledger[k].transaction_type = "refund"}) = 1

\* C19: an accept request sets a booking to confirmed when the booking is pending
\* and the request comes from its provider; every other accept request fails and
\* changes no booking.
C19_AcceptGuard ==
    [][LET r == req'[1]
       IN  (req[1] = IdleReq /\ r.op = "accept_job_view")
           => IF r.id \in BookingRows /\ r.user = Provider
                 /\ bookings[r.id].status = "pending"
              THEN /\ r.res = "ok"
                   /\ bookings' = [bookings EXCEPT ![r.id].status = "confirmed"]
              ELSE r.res # "ok" /\ bookings' = bookings]_vars

\* The provider's accept of a booking that is already confirmed is refused.
C19_Witness ==
    /\ req[1].op = "accept_job_view" /\ req[1].res = "InvalidTransition"
    /\ req[1].user = Provider /\ req[1].id \in BookingRows
    /\ bookings[req[1].id].status = "confirmed"

\* C20: a decline request of the provider sets a booking to cancelled when the
\* booking is pending; every other decline request fails and changes no booking.
C20_DeclineGuard ==
    [][LET r == req'[1]
       IN  (req[1] = IdleReq /\ r.op = "decline_job_view")
           => IF r.id \in BookingRows /\ r.user = Provider
                 /\ bookings[r.id].status = "pending"
              THEN /\ r.res = "ok"
                   /\ bookings' = [bookings EXCEPT ![r.id].status = "cancelled"]
              ELSE r.res # "ok" /\ bookings' = bookings]_vars

\* The provider's decline of a booking that is ongoing is refused.
C20_Witness ==
    /\ req[1].op = "decline_job_view" /\ req[1].res = "InvalidTransition"
    /\ req[1].user = Provider /\ req[1].id \in BookingRows
    /\ bookings[req[1].id].status = "ongoing"

\* C21: a reschedule request of the customer succeeds when the booking is pending
\* or confirmed and then changes the schedule of that booking and nothing else
\* (no other field of it, no other booking, no payment, no ledger row); every
\* other reschedule request fails and leaves bookings, payments and ledger as
\* they were.
C21_RescheduleFrame ==
    [][LET r == req'[1]
       IN  (req[1] = IdleReq /\ r.op = "reschedule_booking_view")
           => IF r.id \in BookingRows /\ r.user = Customer
                 /\ bookings[r.id].status \in {"pending", "confirmed"}
              THEN /\ r.res = "ok"
                   /\ bookings' = [bookings EXCEPT ![r.id].sched = r.n]
                   /\ UNCHANGED <<payments, ledger>>
              ELSE r.res # "ok" /\ UNCHANGED <<bookings, payments, ledger>>]_vars

\* A confirmed and paid booking has been rescheduled.
C21_Witness ==
    /\ req[1].op = "reschedule_booking_view" /\ req[1].res = "ok"
    /\ bookings[req[1].id].status = "confirmed" /\ bookings[req[1].id].is_paid
    /\ bookings[req[1].id].sched = req[1].n /\ req[1].n # NoBooking.sched

\* C22: a process_payment or create_payment_intent request for a booking that is
\* already paid fails, with AlreadyPaid when it comes from the booking's customer,
\* and creates no payment, no installment and no ledger row.
C22_AlreadyPaidRejected ==
    [][LET r == req'[1]
       IN  ( /\ req[1] = IdleReq
             /\ r.op \in {"process_payment_view", "create_payment_intent"}
             /\ r.id \in BookingRows /\ bookings[r.id].is_paid )
           => /\ r.user = Customer => r.res = "AlreadyPaid"
              /\ r.res # "ok"
              /\ UNCHANGED <<payments, installments, ledger, intents>>]_vars

\* A payment request for a booking with a completed payment has been refused.
C22_Witness ==
    /\ req[1].op = "process_payment_view" /\ req[1].res = "AlreadyPaid"
    /\ bookings[req[1].id].is_paid
    /\ \E p \in PaymentRows : payments[p].booking = req[1].id /\ payments[p].status = "completed"

\* C23: a verified payment_intent.succeeded event whose id is the transaction_id
\* of one payment sets that payment to completed and its booking to paid, and
\* moves the booking to confirmed only from pending: a booking that is confirmed,
\* ongoing, completed or cancelled keeps its status.
C23_SucceededConfirmsOnlyPending ==
    [][LET r == req'[1]
       IN  ( /\ req[1] = IdleReq
             /\ r.op = "stripe_webhook" /\ r.m = "valid"
             /\ r.s = "payment_intent.succeeded" )
           => \A p \in PaymentRows :
                 {q \in PaymentRows : payments[q].transaction_id = r.id} = {p}
                 => LET b == payments[p].booking
                    IN  /\ payments'[p].status = "completed"
                        /\ bookings'[b].is_paid
                        /\ bookings'[b].status =
                             IF bookings[b].status = "pending" THEN "confirmed"
                             ELSE bookings[b].status]_vars

\* C24: a refund request of the payment's user (refund_payment_view or
\* create_refund) succeeds only for a completed payment, and then the payment is
\* refunded and its booking cancelled; refund_payment_view always succeeds for a
\* completed payment; for a pending, processing or failed payment the request
\* fails and leaves every payment and every booking as it was.
C24_RefundOnlyCompleted ==
    [][LET r == req'[1]
       IN  ( /\ req[1] = IdleReq
             /\ r.op \in {"refund_payment_view", "create_refund"}
             /\ r.id \in PaymentRows /\ payments[r.id].user = r.user )
           => /\ payments[r.id].status \in {"pending", "processing", "failed"}
                 => (r.res # "ok" /\ UNCHANGED <<payments, bookings>>)
              /\ r.res = "ok"
                 => /\ payments[r.id].status = "completed"
                    /\ payments' = [payments EXCEPT ![r.id].status = "refunded"]
                    /\ bookings' = [bookings EXCEPT ![payments[r.id].booking].status =
                                                        "cancelled"]
              /\ (r.op = "refund_payment_view" /\ payments[r.id].status = "completed")
                 => r.res = "ok"]_vars

\* A completed payment has been refunded by refund_payment_view and its booking
\* is cancelled.
C24_Witness ==
    /\ req[1].op = "refund_payment_view" /\ req[1].res = "ok"
    /\ req[1].id \in PaymentRows
    /\ payments[req[1].id].status = "refunded"
    /\ bookings[payments[req[1].id].booking].status = "cancelled"

\* C25: a refund request of the payment's user for a payment that is already
\* refunded answers AlreadyRefunded, through refund_payment_view and through
\* create_refund, and changes no table.
C25_AlreadyRefunded ==
    [][LET r == req'[1]
       IN  ( /\ req[1] = IdleReq
             /\ r.op \in {"refund_payment_view", "create_refund"}
             /\ r.id \in PaymentRows /\ payments[r.id].user = r.user
             /\ payments[r.id].status = "refunded" )
           => (r.res = "AlreadyRefunded" /\ UNCHANGED tables)]_vars

\* C26: a process_payment request of the customer for an unpaid booking, with
\* payment_type installment and a method other than credits, appends one payment
\* with status processing and, for it, exactly installment_count installments
\* (3 when the request names no count), all pending, numbered 1..installment_count
\* in order, installment i due 30 * i days after the day of the request; the
\* rows that existed are left as they were.
C26_InstallmentPlan ==
    [][LET r == req'[1]
           count == IF r.n = 0 THEN DefaultInstallmentCount ELSE r.n
           p == Len(payments) + 1
       IN  ( /\ req[1] = IdleReq
             /\ r.op = "process_payment_view" /\ r.user = Customer
             /\ r.s = "installment" /\ r.m # "credits"
             /\ r.id \in BookingRows /\ ~bookings[r.id].is_paid )
           => /\ r.res = "ok"
              /\ Len(payments') = p /\ SubSeq(payments', 1, Len(payments)) = payments
              /\ payments'[p].status = "processing" /\ payments'[p].booking = r.id
              /\ payments'[p].payment_type = "installment"
              /\ Len(installments') = Len(installments) + count
              /\ SubSeq(installments', 1, Len(installments)) = installments
              /\ \A i \in 1..count :
                    LET row == installments'[Len(installments) + i]
                    IN  /\ row.payment = p /\ row.installment_number = i
                        /\ row.status = "pending"
                        /\ row.due_days = InstallmentPeriodDays * i]_vars

\* An installment payment with the default count of three installments exists.
C26_Witness ==
    /\ req[1].op = "process_payment_view" /\ req[1].s = "installment" /\ req[1].res = "ok"
    /\ req[1].n = 0
    /\ Len(payments) = 1 /\ payments[1].status = "processing"
    /\ Len(installments) = DefaultInstallmentCount

\* C27: a process_payment request of the customer for an unpaid booking, with a
\* method other than credits: with payment_type immediate it appends a completed
\* payment and marks the booking paid in the same request; with payment_type
\* later it appends a pending payment and leaves the booking unpaid.  And a
\* booking with a pending payment of type later becomes paid in no step, unless
\* the webhook has received the gateway's payment_intent.succeeded event for that
\* payment.
C27_ImmediateAndLater ==
    [][/\ LET r == req'[1]
              p == Len(payments) + 1
          IN  ( /\ req[1] = IdleReq
                /\ r.op = "process_payment_view" /\ r.user = Customer
                /\ r.s \in {"immediate", "later"} /\ r.m # "credits"
                /\ r.id \in BookingRows /\ ~bookings[r.id].is_paid )
              => /\ r.res = "ok"
                 /\ Len(payments') = p /\ payments'[p].booking = r.id
                 /\ r.s = "immediate"
                    => (payments'[p].status = "completed" /\ bookings'[r.id].is_paid)
                 /\ r.s = "later"
                    => (payments'[p].status = "pending" /\ ~bookings'[r.id].is_paid)
       /\ \A p \in PaymentRows :
             ( /\ payments[p].payment_type = "later" /\ payments[p].status = "pending"
               /\ ~bookings[payments[p].booking].is_paid
               /\ bookings'[payments[p].booking].is_paid )
             => <<"payment_intent.succeeded", payments[p].transaction_id>> \in delivered']_vars

\* C28: a webhook request with a verified signature, whose event (succeeded,
\* payment_failed, canceled or charge.refunded) names an object that is the
\* transaction_id of no payment, answers ok and leaves every payment, booking,
\* installment and ledger row as it was.
C28_UnknownEventSwallowed ==
    [][LET r == req'[1]
       IN  ( /\ req[1] = IdleReq
             /\ r.op = "stripe_webhook" /\ r.m = "valid" /\ r.s \in EventTypes
             /\ \A p \in PaymentRows : payments[p].transaction_id # r.id )
           => (r.res = "ok" /\ UNCHANGED tables)]_vars

\* A verified payment_intent.succeeded event about an unknown intent has been
\* answered ok while a payment is waiting for its own event.
C28_Witness ==
    /\ req[1].op = "stripe_webhook" /\ req[1].m = "valid" /\ req[1].res = "ok"
    /\ req[1].s = "payment_intent.succeeded" /\ req[1].id = UnknownIntent
    /\ \E p \in PaymentRows : payments[p].status = "processing"

\* C29: a webhook request whose signature is missing or does not verify answers
\* with an error and applies nothing of its payload: every table is left as it
\* was and the event is not recorded as received.
C29_UnverifiedRejected ==
    [][LET r == req'[1]
       IN  (req[1] = IdleReq /\ r.op = "stripe_webhook" /\ r.m \in {"missing", "invalid"})
           => (r.res = "BadSignature" /\ UNCHANGED <<tables, delivered>>)]_vars

\* A payment_intent.succeeded payload for the intent of a processing payment,
\* sent with an invalid signature, has been refused and the payment is still
\* processing.
C29_Witness ==
    /\ req[1].op = "stripe_webhook" /\ req[1].m = "invalid" /\ req[1].res = "BadSignature"
    /\ req[1].s = "payment_intent.succeeded"
    /\ \E p \in PaymentRows : /\ payments[p].transaction_id = req[1].id
                              /\ payments[p].status = "processing"

\* C30: a create_payment_intent request in which the gateway fails to create the
\* customer or the intent fails, creates no payment and changes no booking; a
\* create_refund request of the payment's user for a completed payment, in which
\* the gateway does not make the refund, answers with the gateway's error and
\* leaves the payment completed and every booking as it was.
C30_GatewayFailureCommitsNothing ==
    [][LET r == req'[1]
       IN  /\ ( /\ req[1] = IdleReq /\ r.op = "create_payment_intent"
                /\ r.s \in {"customer_fails", "intent_fails"} )
              => (r.res # "ok" /\ UNCHANGED <<payments, bookings>>)
           /\ ( /\ req[1] = IdleReq /\ r.op = "create_refund"
                /\ r.id \in PaymentRows /\ payments[r.id].user = r.user
                /\ payments[r.id].status = "completed"
                /\ ~( /\ r.flag
                      /\ payments[r.id].transaction_id \in 1..Len(intents)
                      /\ intents[payments[r.id].transaction_id].status = "succeeded"
                      /\ ~intents[payments[r.id].transaction_id].refunded ) )
              => (r.res = "GatewayError" /\ UNCHANGED <<payments, bookings>>)]_vars

\* The gateway was not reachable for the refund of a completed payment of a
\* succeeded intent: the request failed and the payment is still completed.
C30_Witness ==
    /\ req[1].op = "create_refund" /\ req[1].res = "GatewayError" /\ ~req[1].flag
    /\ req[1].id \in PaymentRows
    /\ payments[req[1].id].status = "completed"
    /\ payments[req[1].id].transaction_id \in 1..Len(intents)
    /\ intents[payments[req[1].id].transaction_id].status = "succeeded"

\* C31: the credit ledger is append-only: no step of any request removes a ledger
\* row or changes the user, amount, transaction_type or balance_after of a row
\* that exists.
C31_LedgerAppendOnly ==
    [][/\ Len(ledger') >= Len(ledger)
       /\ \A k \in LedgerRows :
             /\ ledger'[k].user = ledger[k].user
             /\ ledger'[k].amount = ledger[k].amount
             /\ ledger'[k].transaction_type = ledger[k].transaction_type
             /\ ledger'[k].balance_after = ledger[k].balance_after]_vars

\* The ledger holds a purchase and the debit of a credits payment, and the
\* service of the paid booking has been deleted.
C31_Witness ==
    /\ req[1].op = "ServiceDeleteView" /\ req[1].res = "ok"
    /\ Len(ledger) = 2
    /\ ledger[1].transaction_type = "purchase"
    /\ ledger[2].transaction_type = "used" /\ ledger[2].booking = 0

\* C32: in every step, also when requests are served concurrently, a review that
\* exists keeps its booking and its rating; no booking gets a second review; and
\* a step of respond_to_review_view that changes the reviews sets the
\* provider_response of one review and changes nothing else of any table.
C32_RatingImmutable ==
    [][/\ \A k \in ReviewRows :
             /\ k <= Len(reviews')
             /\ reviews'[k].rating = reviews[k].rating
             /\ reviews'[k].booking = reviews[k].booking
       /\ \A j, k \in 1..Len(reviews') :
             reviews'[j].booking = reviews'[k].booking => j = k
       /\ \A t \in Slots :
             (req'[t].op = "respond_to_review_view" /\ req'[t] # req[t] /\ reviews' # reviews)
             => /\ \E k \in ReviewRows :
                      reviews' = [reviews EXCEPT ![k].provider_response = TRUE]
                /\ UNCHANGED <<bookings, payments, installments, ledger, profile>>]_vars

\* The provider has responded to a review with the highest rating, and the
\* rating is still there.
C32_Witness ==
    \E t \in Slots :
        /\ req[t].op = "respond_to_review_view" /\ req[t].res = "ok"
        /\ req[t].id \in ReviewRows
        /\ reviews[req[t].id].provider_response
        /\ reviews[req[t].id].rating = MaxRating

\* C33: no step of any request removes a booking: every booking that exists
\* before the step exists after it.
C33_BookingNeverDeleted ==
    [][\A b \in BookingRows : b \in 1..Len(bookings')]_vars

\* C34: in every step the provider's total_earnings and jobs_completed do not
\* decrease; they change only in a request that sets a booking to completed
\* through update_booking_status_view; and a review submission leaves both as
\* they were.
C34_StatsMonotone ==
    [][/\ profile'.total_earnings >= profile.total_earnings
       /\ profile'.jobs_completed >= profile.jobs_completed
       /\ ( \/ profile'.total_earnings # profile.total_earnings
            \/ profile'.jobs_completed # profile.jobs_completed )
          => /\ req'[1].op = "update_booking_status_view"
             /\ req'[1].s = "completed" /\ req'[1].res = "ok"]_vars

\* C35: in every reachable state, also between the statements of concurrent
\* credits payments of one user for different bookings (no booking is debited
\* twice), the sum of the amounts of a user's ledger rows is not negative.
C35_BalanceNeverNegative ==
    (\A j, k \in LedgerRows :
        ( /\ ledger[j].transaction_type = "used" /\ ledger[k].transaction_type = "used"
          /\ ledger[j].booking = ledger[k].booking ) => j = k)
    => \A u \in Users : SumAmounts(ledger, u, Len(ledger)) >= 0

\* The sum of the amounts of the rows of type ttype of booking b among the first
\* k ledger rows.
RECURSIVE BookingTotal(_, _, _, _)
BookingTotal(rows, b, ttype, k) ==
    IF k = 0 THEN 0
    ELSE BookingTotal(rows, b, ttype, k - 1)
         + (IF rows[k].booking = b /\ rows[k].transaction_type = ttype
            THEN rows[k].amount ELSE 0)

\* C36: in every reachable state, for each booking the credits refunded by its
\* refund rows are at most the credits debited by its used rows; a booking that
\* was never debited has no refund row.
C36_RefundAtMostDebit ==
    \A b \in BookingRows :
        BookingTotal(ledger, b, "refund", Len(ledger))
            <= -BookingTotal(ledger, b, "used", Len(ledger))

\* No handler is between two of its statements.
NoRequestRunning == \A t \in Slots : ~Running(t)

\* C37: whenever no request is being served, a cancelled booking that has a
\* used row in the ledger has refund rows of the same total, whichever view
\* cancelled it and whether it was debited before or after the cancellation.
C37_CancelledIsRefunded ==
    NoRequestRunning =>
        \A b \in BookingRows :
            (/\ bookings[b].status = "cancelled"
             /\ BookingTotal(ledger, b, "used", Len(ledger)) # 0)
            => BookingTotal(ledger, b, "refund", Len(ledger))
                   = -BookingTotal(ledger, b, "used", Len(ledger))

\* The completed payments of booking b.
CompletedPayments(b) ==
    {p \in PaymentRows : payments[p].booking = b /\ payments[p].status = "completed"}

\* C38: in every reachable state each booking has at most one payment with
\* status completed, whatever process_payment requests, create_payment_intent
\* requests, confirm_payment calls and succeeded events were served for it.
C38_ChargedOnce ==
    \A b \in BookingRows : Cardinality(CompletedPayments(b)) <= 1

\* C39: under every interleaving of a review submission with a completion for
\* the same provider neither overwrites the other's profile fields: the save of
\* the recomputed rating leaves jobs_completed and total_earnings as they are in
\* the table, and the save of the completion's increment leaves the rating as
\* it is in the table, so the final profile carries both.
C39_NoProfileOverwrite ==
    [][\A t \in Slots :
          /\ ( /\ req[t].op = "create_booking_review_view"
               /\ req[t].pc = "save_profile" /\ req'[t].pc = "done" )
             => /\ profile'.jobs_completed = profile.jobs_completed
                /\ profile'.total_earnings = profile.total_earnings
          /\ ( /\ req[t].op = "update_booking_status_view"
               /\ req[t].pc = "save_profile" /\ req'[t].pc = "done" )
             => profile'.rating = profile.rating]_vars

\* The bookings of the provider whose status is completed.
CompletedBookings == {b \in BookingRows : bookings[b].status = "completed"}

RECURSIVE CompletedAmounts(_)
CompletedAmounts(k) ==
    IF k = 0 THEN 0
    ELSE CompletedAmounts(k - 1)
         + (IF bookings[k].status = "completed" THEN bookings[k].total_amount ELSE 0)

\* C40: whenever no request is being served, the provider's jobs_completed is
\* the number of the provider's bookings with status completed and
\* total_earnings is the sum of their total_amount.
C40_StatsAgreeWithBookings ==
    NoRequestRunning =>
        /\ profile.jobs_completed = Cardinality(CompletedBookings)
        /\ profile.total_earnings = CompletedAmounts(Len(bookings))

=============================================================================
